---- MODULE Spec2Model ----
(***************************************************************************)
(* wpmm: the package acquisition and installation pipeline.                *)
(*                                                                         *)
(* Strings are modelled as sequences of lexemes: the separators "/" and    *)
(* "." and the scheme prefixes "http://" and "https://" are lexemes of     *)
(* their own, every other lexeme is a word without separators. The empty   *)
(* string is the empty sequence.                                           *)
(***************************************************************************)
EXTENDS Integers, Sequences, FiniteSets, TLC

\* ------------------------------------------------------------------ bounds
NumPkgs == 2
MaxRedirects == 1
MaxCmds == 2
MaxEntries == 3

\* ------------------------------------------------------- string helpers
RECURSIVE SplitOn(_, _)
\* String.prototype.split(sep): the parts between the separators; a string
\* without separator (the empty string included) yields one part.
SplitOn(s, sep) ==
  IF \A i \in 1..Len(s) : s[i] # sep
    THEN <<s>>
    ELSE LET k == CHOOSE i \in 1..Len(s) :
                    s[i] = sep /\ \A j \in 1..(i - 1) : s[j] # sep
         IN <<SubSeq(s, 1, k - 1)>> \o SplitOn(SubSeq(s, k + 1, Len(s)), sep)

\* Array.prototype.pop() on the result of a split: the last part.
Pop(parts) == parts[Len(parts)]

\* packageName.startsWith('http://') || packageName.startsWith('https://')
StartsWithHttp(s) == Len(s) > 0 /\ s[1] \in {"http://", "https://"}

\* ------------------------------------------------------ source resolver
NoVersion == <<>>
NoSource == <<>>

\* getDownloadUrl(packageName, packageVersion, type)
GetDownloadUrl(packageName, packageVersion, type) ==
  IF StartsWithHttp(packageName)
    THEN packageName
    ELSE LET versioned == IF packageVersion # NoVersion
                            THEN packageName \o <<".">> \o packageVersion
                            ELSE packageName
         IN <<"https://", "downloads", ".", "wordpress", ".", "org", "/", type, "/">>
              \o versioned \o <<".", "zip">>

\* Package.install: const packageUrl = source || getDownloadUrl(name, version, this.packageType)
PackageUrl(pkgInfo, packageType) ==
  IF pkgInfo.source # NoSource
    THEN pkgInfo.source
    ELSE GetDownloadUrl(pkgInfo.name, pkgInfo.version, packageType)

\* Package.downloadPackage: packageUrl.split('.').pop() === 'git'
IsGitUrl(packageUrl) == Pop(SplitOn(packageUrl, ".")) = <<"git">>

\* Every source taken for an archive.
MutAlwaysArchive(packageUrl) == "archive"

\* The branch Package.downloadPackage takes for a package URL.
FetchMode(packageUrl) == IF IsGitUrl(packageUrl) THEN "clone" ELSE "archive"

\* -------------------------------------------------- archive extraction
\* commonRootPath.split('/') of a path kept as its segments.
SplitSlash(p) == IF p = <<>> THEN <<"">> ELSE p

\* segments.join('/'), kept as segments; joining nothing gives "".
JoinSlash(segs) == IF segs = <<"">> THEN <<>> ELSE segs

\* JavaScript array index: undefined beyond the end.
At(arr, i) == IF i + 1 \in 1..Len(arr) THEN arr[i + 1] ELSE "undefined"

\* The onEntry callback of extractZip: the new commonRootPath after an entry
\* whose fileName splits into entryPathParts.
OnEntry(commonRootPath, entryPathParts) ==
  IF commonRootPath = <<>>
    THEN IF entryPathParts[1] = "" THEN <<>> ELSE <<entryPathParts[1]>>
    ELSE LET cur == SplitSlash(commonRootPath)
             diff == {i \in 0..(Len(entryPathParts) - 1) :
                        At(cur, i) # entryPathParts[i + 1]}
         IN IF diff = {}
              THEN commonRootPath
              ELSE LET i == CHOOSE k \in diff : \A j \in diff : k <= j
                   IN JoinSlash(SubSeq(cur, 1, i))

RECURSIVE FoldEntries(_, _)
FoldEntries(commonRootPath, entries) ==
  IF entries = <<>>
    THEN commonRootPath
    ELSE FoldEntries(OnEntry(commonRootPath, Head(entries)), Tail(entries))

\* extractZip(zipFilePath, targetDirectory): the returned commonRootPath.
ExtractZipRoot(entries) == FoldEntries(<<>>, entries)

\* The top-level names an archive creates in the target directory.
TopLevel(entries) == {<<entries[i][1]>> : i \in 1..Len(entries)}

\* path.join(tempDir, extractedPath): joining the empty string is tempDir.
TempDir == <<"temp">>
PathJoin(dir, rel) == dir \o rel


\* ------------------------------------------------------------ the state
VARIABLES
  config,       \* the manifest: wordpress declared, package specs, postInstall
  wpcli,        \* host: the wp command line tool is installed (unknown until probed)
  pc,           \* position of Installer.run
  crashed,      \* the node process died of an uncaught error
  ust,          \* per unit: position of its install()
  hops,         \* per unit: redirects followed by its downloadFile chain
  result,       \* per unit: how downloadPackage / installWordPress ended
  ops,          \* per unit: the pipeline steps it has performed
  moved,        \* per unit: the path handed to renameFolder as oldPath
  rootOf,       \* per unit: the root extractZip returned
  dest,         \* per unit: content of its destination folder
  atInvoke,     \* per unit: content of its destination when install() was called
  tempExists,   \* tempDir exists at its path
  tempFiles,    \* names directly inside tempDir
  cursor,       \* runPostInstallCommands: index of the next command
  cmdState,     \* per post-install command: idle, running, exited
  failure,      \* per unit: the step whose error downloadPackage caught
  reports,      \* per unit: the success messages logged for it
  copied,       \* per unit: times Installer pushed its pkgInfo into the manifest
  writes        \* per unit: the paths inside tempDir it has written

runVars == <<config, wpcli, pc, crashed, ust, hops, result, ops,
             moved, rootOf, dest, atInvoke, tempExists, tempFiles, cursor,
             cmdState, failure, reports, copied, writes>>

VARIABLES
  zEntries,        \* extractZip: the archive's entries, each split at "/"
  zNext,           \* extractZip: index of the next entry handed to onEntry
  commonRootPath,  \* extractZip: the running common root
  zStatus          \* extractZip: idle, extracting, returned

zipVars == <<zEntries, zNext, commonRootPath, zStatus>>

VARIABLES
  rInfo,   \* Package: pkgInfo {name, version, source}
  rType,   \* Package: packageType
  rUrl,    \* Package.install: packageUrl
  rMode,   \* Package.downloadPackage: the branch taken, clone or archive
  rStage   \* position of Package.install: idle, new, resolved, dispatched

resVars == <<rInfo, rType, rUrl, rMode, rStage>>

VARIABLES
  dScript,  \* the server: the response to the request at each hop of the chain
  dFile,    \* targetFile: whether it exists, and whose body it holds
  dBefore,  \* targetFile as it was when the current call was made
  dCall,    \* number of calls of downloadFile(url, targetFile) made so far
  dStage,   \* position of the current call: idle, inflight, dead
  dPos,     \* hop of the request in flight
  dReqs,    \* per call: https.get requests issued
  dOut,     \* per call: none, resolved, rejected, hung, crashed
  dErr,     \* per call: message of the error the call threw
  dActs     \* what was done with each response received: [call, pos, act]

dlVars == <<dScript, dFile, dBefore, dCall, dStage, dPos, dReqs, dOut, dErr, dActs>>

VARIABLES
  wVersion,   \* getWordPressDownloadUrl: the version argument
  wLanguage,  \* getWordPressDownloadUrl: the language argument
  wUrl,       \* the URL returned
  wStage      \* idle, new, resolved

wpVars == <<wVersion, wLanguage, wUrl, wStage>>

VARIABLES
  bFiles,     \* the relocated pkgFolder: which of the build files it contains
  bValid,     \* package.json parses as JSON
  bStage,     \* position of downloadPackage after relocation
  bChildren   \* the subprocesses spawned, in order: [command, state]

bVars == <<bFiles, bValid, bStage, bChildren>>

\* The command line's own operations are each followed in one record, which
\* is [stage |-> "idle"] in the specifications that do not use it.
VARIABLES
  pth,   \* getWordPressPaths and the core relocation:
         \*   cwd     process.cwd(), a path as its segments
         \*   isWp    isWordpressFolder(cwd)
         \*   name    config.wordpress.name, given with its text or not given
         \*   exists  something already lies at the core's destination path
         \*   paths   the WPMMpaths object getWordPressPaths returned
         \*   coreAt  the folder the core archive was relocated to
         \*   stage   new, paths, installed, skipped, failed
  main,  \* the entry point:
         \*   argv    the option keys the loop goes over, in order
         \*   config  how the getConfig promise settles: resolves, rejects
         \*   calls   the awaited calls an update job has to make
         \*   jobs    one job per dispatched key: [key, state]
         \*   gen     microtask generations run since the then-callback
         \*   stage   start, dispatched, caught, exited
  ini,   \* Initialize:
         \*   wpFolder  Initialize.wpFolder, a path as its segments
         \*   target    what lies at outputPath: [kind, content, inner]
         \*   before    target when the operation started
         \*   options   generateConfig's options: version given or not
         \*   check     what getWpVersionCheck answers: version, none, fails
         \*   result    the configuration generateConfig resolved with
         \*   stage     new, checking, generated, written, rejected
  upd    \* Updater:
         \*   argv   the update options: all, plugins, themes, wordpress
         \*   queue  the update calls Updater.run still has to make
         \*   done   the targets updated so far, in order
         \*   stage  new, running, done, refused

cliVars == <<pth, main, ini, upd>>

vars == <<runVars, zipVars, resVars, dlVars, wpVars, bVars, cliVars>>

Core == 0
Pkgs == 1..NumPkgs
AllUnits == {Core} \cup Pkgs

\* Installer.installPackages: plugins become Package(plugin, 'plugin', paths),
\* themes Package(theme, 'theme', paths). Odd units are plugins, even themes.
PackageType(u) == IF u = Core THEN "wordpress" ELSE IF u % 2 = 1 THEN "plugin" ELSE "theme"

PkgNames == {<<"alpha">>, <<"beta">>}
GitSource == <<"https://", "github", ".", "com", "/", "o", "/", "r", ".", "git">>
RunSources == {NoSource, GitSource}

\* Archives a server may deliver, as the list of their entries' path segments.
WpArchive == << <<"wordpress", "index">>, <<"wordpress", "wp-config-sample">> >>
SplitArchive == << <<"a", "x">>, <<"b", "y">> >>
Archives == {WpArchive, SplitArchive}

\* Package.execDownload / WpPackage.installWordPress: the file name in tempDir.
ZipName(u) ==
  IF u = Core THEN <<"wordpress", "-", "latest", ".", "zip">>
  ELSE config.pkgs[u].name \o <<".", "zip">>

\* The name-uniqueness invariant of the manifest: unique within a role.
UniqueNames(pkgs) ==
  \A u, v \in Pkgs :
    (u # v /\ PackageType(u) = PackageType(v)) => pkgs[u].name # pkgs[v].name

RunIdle ==
  /\ config = [wordpress |-> FALSE,
               pkgs |-> [u \in Pkgs |-> [name |-> <<"alpha">>, version |-> NoVersion,
                                           source |-> NoSource]],
               postInstall |-> <<>>]
  /\ wpcli = "unprobed"
  /\ pc = "idle"
  /\ crashed = FALSE
  /\ ust = [u \in AllUnits |-> "pending"]
  /\ hops = [u \in AllUnits |-> 0]
  /\ result = [u \in AllUnits |-> "none"]
  /\ ops = [u \in AllUnits |-> {}]
  /\ moved = [u \in AllUnits |-> <<>>]
  /\ rootOf = [u \in AllUnits |-> <<>>]
  /\ dest = [u \in AllUnits |-> "absent"]
  /\ atInvoke = [u \in AllUnits |-> "notyet"]
  /\ tempExists = FALSE
  /\ tempFiles = {}
  /\ cursor = 0
  /\ cmdState = <<>>
  /\ failure = [u \in AllUnits |-> "none"]
  /\ reports = [u \in AllUnits |-> {}]
  /\ copied = [u \in AllUnits |-> 0]
  /\ writes = [u \in AllUnits |-> {}]

\* The state after new Installer(config, paths), for every bounded manifest
\* and host. The manifest's postInstall list is first looked at after
\* Promise.all, and like the host's wp tool it is drawn there. A git source
\* is drawn for the first plugin only; the other units resolve by name.
RunInit ==
  /\ \E wp \in BOOLEAN :
       \E pk \in [Pkgs -> [name : PkgNames, version : {NoVersion}, source : RunSources]] :
         /\ UniqueNames(pk)
         /\ pk[1].name = <<"alpha">>
         /\ \A u \in Pkgs : u > 1 => pk[u].source = NoSource
         /\ config = [wordpress |-> wp, pkgs |-> pk, postInstall |-> <<>>]
  /\ wpcli = "unprobed"
  /\ pc = "start"
  /\ crashed = FALSE
  /\ ust = [u \in AllUnits |-> "pending"]
  /\ hops = [u \in AllUnits |-> 0]
  /\ result = [u \in AllUnits |-> "none"]
  /\ ops = [u \in AllUnits |-> {}]
  /\ moved = [u \in AllUnits |-> <<>>]
  /\ rootOf = [u \in AllUnits |-> <<>>]
  /\ dest \in [AllUnits -> {"absent", "stale"}]
  /\ (~config.wordpress => dest[Core] = "absent")
  /\ atInvoke = [u \in AllUnits |-> "notyet"]
  /\ tempExists = FALSE
  /\ tempFiles = {}
  /\ cursor = 0
  /\ cmdState = <<>>
  /\ failure = [u \in AllUnits |-> "none"]
  /\ reports = [u \in AllUnits |-> {}]
  /\ copied = [u \in AllUnits |-> 0]
  /\ writes = [u \in AllUnits |-> {}]


\* ------------------------------------------------- Installer and units
\* JavaScript truthiness of a value: a boolean is itself, an object (a
\* Promise, a ChildProcess) is always truthy.
Truthy(v) == IF v.kind = "bool" THEN v.val ELSE TRUE

\* isWPCLIAvailable(): an async function, so the call returns a Promise. Its
\* body awaits exec('wp --version'), which returns a ChildProcess and never
\* throws, so the promise resolves to true whatever the host has installed.
IsWPCLIAvailable == [kind |-> "promise", val |-> TRUE]

\* wp.install() called without await: the units start once the core has started.
MutCoreInstallNotAwaited == ~config.wordpress \/ ust[Core] # "pending"

\* installPackages: await wp.install() stands between the core unit and the
\* construction of the plugin and theme units.
CoreInstallAwaited == ~config.wordpress \/ ust[Core] = "settled"

\* The existence check left out: the unit always goes on to fetch.
MutDestinationNeverExists(u) == FALSE

\* downloadPackage: if (fs.existsSync(pkgFolder)) return;
DestinationExists(u) == dest[u] # "absent"

\* runPostInstallCommands: await exec(command) awaits a ChildProcess, which
\* is not a thenable: the loop resumes without waiting for command i to exit.
ExecAwaited(i) == TRUE

\* downloadFile: if (fs.existsSync(targetFile)) return; else https.get(...)
DownloadStart(u) == IF tempExists /\ ZipName(u) \in tempFiles THEN "downloaded" ELSE "requesting"

\* The synchronous prefix of Package.install for unit u.
PkgStart(u) ==
  IF DestinationExists(u) THEN "settled"
  ELSE IF FetchMode(PackageUrl(config.pkgs[u], PackageType(u))) = "clone" THEN "cloning"
  ELSE DownloadStart(u)

StartOps(st) ==
  IF st = "cloning" THEN {"clone"} ELSE IF st = "requesting" THEN {"fetch"} ELSE {}

\* console.log(`${name} installed successfully in ${packageUrl}`), logged by
\* downloadPackage after the relocation or the clone; WpPackage logs its like.
InstalledIn == "installed successfully in"

\* console.log(`${packageType} ${name} installed successfully.`), logged by
\* Package.install when downloadPackage has returned.
Installed == "installed successfully."

\* Package.install after await this.downloadPackage(packageUrl), which
\* returns normally whether or not it caught an error: the success message,
\* then Installer's then-callback pushes pkgInfo into the manifest
\* collection. earlier: the messages downloadPackage logged in this step.
InstallResolves(u, earlier) ==
  LET resolves == u \in Pkgs /\ ust[u] # "settled" /\ ust'[u] = "settled"
  IN /\ reports' = [reports EXCEPT ![u] =
                      @ \cup earlier \cup (IF resolves THEN {Installed} ELSE {})]
     /\ copied' = [copied EXCEPT ![u] = IF resolves THEN @ + 1 ELSE @]

\* Installer.run -> installPackages up to its first await: makeDir(tempDir),
\* then WpPackage.install() when the manifest declares wordpress.
RunStart ==
  /\ pc = "start" /\ ~crashed
  /\ tempExists' = TRUE
  /\ pc' = "core"
  /\ IF config.wordpress
       THEN LET st == IF DestinationExists(Core) THEN "settled" ELSE DownloadStart(Core)
            IN /\ atInvoke' = [atInvoke EXCEPT ![Core] = dest[Core]]
               /\ ust' = [ust EXCEPT ![Core] = st]
               /\ result' = [result EXCEPT ![Core] = IF st = "settled" THEN "skipped" ELSE "none"]
               /\ ops' = [ops EXCEPT ![Core] = StartOps(st)]
       ELSE UNCHANGED <<atInvoke, ust, result, ops>>
  /\ UNCHANGED <<zipVars, resVars, dlVars, wpVars, bVars, cliVars>>
  /\ UNCHANGED <<config, wpcli, crashed, hops, moved, rootOf, dest,
                 tempFiles, cursor, cmdState>>
  /\ UNCHANGED <<failure, reports, copied, writes>>

\* installPackages after the core unit: every plugin and theme unit is
\* constructed and its install() called, in one synchronous stretch.
StartPkgs ==
  /\ pc = "core" /\ ~crashed
  /\ CoreInstallAwaited
  /\ pc' = "units"
  /\ atInvoke' = [u \in AllUnits |-> IF u \in Pkgs THEN dest[u] ELSE atInvoke[u]]
  /\ ust' = [u \in AllUnits |-> IF u \in Pkgs THEN PkgStart(u) ELSE ust[u]]
  /\ result' = [u \in AllUnits |->
                  IF u \in Pkgs /\ PkgStart(u) = "settled" THEN "skipped" ELSE result[u]]
  /\ ops' = [u \in AllUnits |-> IF u \in Pkgs THEN StartOps(PkgStart(u)) ELSE ops[u]]
  /\ reports' = [u \in AllUnits |->
                   IF u \in Pkgs /\ PkgStart(u) = "settled" THEN {Installed} ELSE reports[u]]
  /\ copied' = [u \in AllUnits |->
                  IF u \in Pkgs /\ PkgStart(u) = "settled" THEN 1 ELSE copied[u]]
  /\ UNCHANGED <<failure, writes>>
  /\ UNCHANGED <<zipVars, resVars, dlVars, wpVars, bVars, cliVars>>
  /\ UNCHANGED <<config, wpcli, crashed, hops, moved, rootOf, dest,
                 tempExists, tempFiles, cursor, cmdState>>

\* downloadFile: status >= 400 or a connection error on the first request;
\* the promise rejects, downloadFile throws, the unit's catch logs it.
FetchError(u) ==
  /\ ~crashed /\ ust[u] = "requesting" /\ hops[u] = 0
  /\ ust' = [ust EXCEPT ![u] = "settled"]
  /\ result' = [result EXCEPT ![u] = "failed"]
  /\ failure' = [failure EXCEPT ![u] = "fetch"]
  /\ InstallResolves(u, {})
  /\ UNCHANGED writes
  /\ UNCHANGED <<zipVars, resVars, dlVars, wpVars, bVars, cliVars>>
  /\ UNCHANGED <<config, wpcli, pc, crashed, hops, ops, moved, rootOf,
                 dest, atInvoke, tempExists, tempFiles, cursor, cmdState>>

\* downloadFile: the request issued after a redirect fails. The recursive
\* call throws inside the async response callback before resolve() is
\* reached: the rejection is unhandled and the outer promise never settles.
\* Depending on the runtime's unhandled-rejection mode the process dies or
\* the unit stays pending for ever.
FetchErrorAfterRedirect(u) ==
  /\ ~crashed /\ ust[u] = "requesting" /\ hops[u] > 0
  /\ \/ ust' = [ust EXCEPT ![u] = "hung"] /\ UNCHANGED crashed
     \/ crashed' = TRUE /\ UNCHANGED ust
  /\ result' = [result EXCEPT ![u] = "failed"]
  /\ failure' = [failure EXCEPT ![u] = "fetch"]
  /\ UNCHANGED <<reports, copied, writes>>
  /\ UNCHANGED <<zipVars, resVars, dlVars, wpVars, bVars, cliVars>>
  /\ UNCHANGED <<config, wpcli, pc, hops, ops, moved, rootOf,
                 dest, atInvoke, tempExists, tempFiles, cursor, cmdState>>

\* downloadFile: a 3xx response with a Location header; the function calls
\* itself with the new URL and the same target file.
FetchRedirect(u) ==
  /\ ~crashed /\ ust[u] = "requesting" /\ hops[u] < MaxRedirects
  /\ ust' = [ust EXCEPT ![u] = DownloadStart(u)]
  /\ hops' = [hops EXCEPT ![u] = IF DownloadStart(u) = "requesting" THEN @ + 1 ELSE 0]
  /\ UNCHANGED <<failure, reports, copied, writes>>
  /\ UNCHANGED <<zipVars, resVars, dlVars, wpVars, bVars, cliVars>>
  /\ UNCHANGED <<config, wpcli, pc, crashed, result, ops, moved, rootOf,
                 dest, atInvoke, tempExists, tempFiles, cursor, cmdState>>

\* downloadFile: a success response is piped into fs.createWriteStream(
\* targetFile). The stream has no error listener: when tempDir is gone the
\* open fails and the error is uncaught.
FetchSuccess(u) ==
  /\ ~crashed /\ ust[u] = "requesting"
  /\ IF tempExists
       THEN /\ tempFiles' = tempFiles \cup {ZipName(u)}
            /\ writes' = [writes EXCEPT ![u] = @ \cup {ZipName(u)}]
            /\ ust' = [ust EXCEPT ![u] = "downloaded"]
            /\ hops' = [hops EXCEPT ![u] = 0]
            /\ UNCHANGED crashed
       ELSE /\ crashed' = TRUE
            /\ UNCHANGED <<tempFiles, writes, ust, hops>>
  /\ UNCHANGED <<failure, reports, copied>>
  /\ UNCHANGED <<zipVars, resVars, dlVars, wpVars, bVars, cliVars>>
  /\ UNCHANGED <<config, wpcli, pc, result, ops, moved, rootOf,
                 dest, atInvoke, tempExists, cursor, cmdState>>

\* extractZip rejects: the archive is corrupt or the zip file is not there.
ExtractFail(u) ==
  /\ ~crashed /\ ust[u] = "downloaded"
  /\ ust' = [ust EXCEPT ![u] = "settled"]
  /\ result' = [result EXCEPT ![u] = "failed"]
  /\ failure' = [failure EXCEPT ![u] = "extract"]
  /\ InstallResolves(u, {})
  /\ UNCHANGED writes
  /\ UNCHANGED <<zipVars, resVars, dlVars, wpVars, bVars, cliVars>>
  /\ UNCHANGED <<config, wpcli, pc, crashed, hops, ops, moved, rootOf,
                 dest, atInvoke, tempExists, tempFiles, cursor, cmdState>>

\* extractZip resolves with the archive's root, then, without yielding:
\* Package.downloadPackage renames path.join(tempDir, extractedPath) to
\* pkgFolder and starts installNpmPackages / installComposer;
\* WpPackage.installWordPress renames tempDir/wordpress to its destination.
ExtractOk(u) ==
  /\ ~crashed /\ ust[u] = "downloaded"
  /\ tempExists /\ ZipName(u) \in tempFiles
  /\ \E entries \in Archives, hasPackageJson \in BOOLEAN, renameOk \in BOOLEAN :
       LET root == ExtractZipRoot(entries)
           files == tempFiles \cup TopLevel(entries)
           oldPath == IF u = Core THEN PathJoin(TempDir, <<"wordpress">>)
                      ELSE PathJoin(TempDir, root)
           renamed == renameOk /\ (u = Core => <<"wordpress">> \in files)
           build == u # Core /\ renamed /\ hasPackageJson
       IN /\ (u = Core \/ ~renameOk => ~hasPackageJson)
          /\ rootOf' = [rootOf EXCEPT ![u] = root]
          /\ IF ~renamed
               THEN /\ tempFiles' = files
                    /\ UNCHANGED <<tempExists, dest, moved>>
               ELSE /\ moved' = [moved EXCEPT ![u] = oldPath]
                    /\ IF oldPath = TempDir
                         THEN /\ tempExists' = FALSE
                              /\ tempFiles' = {}
                              /\ dest' = [dest EXCEPT ![u] = "tempdir"]
                         ELSE /\ tempFiles' = files \ {SubSeq(oldPath, 2, Len(oldPath))}
                              /\ dest' = [dest EXCEPT ![u] = "payload"]
                              /\ UNCHANGED tempExists
          /\ ust' = [ust EXCEPT ![u] = IF build THEN "building" ELSE "settled"]
          /\ result' = [result EXCEPT ![u] =
                          IF ~renamed THEN "failed" ELSE IF build THEN "none" ELSE "ok"]
          /\ failure' = [failure EXCEPT ![u] = IF ~renamed THEN "relocate" ELSE @]
          /\ writes' = [writes EXCEPT ![u] = @ \cup TopLevel(entries)]
          /\ InstallResolves(u, IF renamed THEN {InstalledIn} ELSE {})
          /\ ops' = [ops EXCEPT ![u] = @ \cup {"extract"}
                       \cup (IF renamed THEN {"relocate"} ELSE {})
                       \cup (IF build THEN {"npm"} ELSE {})
                       \cup (IF u # Core /\ renamed /\ ~hasPackageJson THEN {"composer"} ELSE {})]
  /\ UNCHANGED <<zipVars, resVars, dlVars, wpVars, bVars, cliVars>>
  /\ UNCHANGED <<config, wpcli, pc, crashed, hops, atInvoke, cursor, cmdState>>

\* cloneRepo: the git clone subprocess exits; on success the repository is in
\* pkgFolder and installNpmPackages / installComposer start.
CloneExit(u) ==
  /\ ~crashed /\ ust[u] = "cloning"
  /\ \E ok \in BOOLEAN, hasPackageJson \in BOOLEAN :
       /\ (~ok => ~hasPackageJson)
       /\ dest' = [dest EXCEPT ![u] = IF ok THEN "clone" ELSE @]
       /\ ust' = [ust EXCEPT ![u] = IF ok /\ hasPackageJson THEN "building" ELSE "settled"]
       /\ failure' = [failure EXCEPT ![u] = IF ok THEN @ ELSE "clone"]
       /\ InstallResolves(u, IF ok THEN {InstalledIn} ELSE {})
       /\ UNCHANGED writes
       /\ result' = [result EXCEPT ![u] =
                       IF ~ok THEN "failed" ELSE IF hasPackageJson THEN "none" ELSE "ok"]
       /\ ops' = [ops EXCEPT ![u] = @
                    \cup (IF ok /\ hasPackageJson THEN {"npm"} ELSE {})
                    \cup (IF ok /\ ~hasPackageJson THEN {"composer"} ELSE {})]
  /\ UNCHANGED <<zipVars, resVars, dlVars, wpVars, bVars, cliVars>>
  /\ UNCHANGED <<config, wpcli, pc, crashed, hops, moved, rootOf,
                 atInvoke, tempExists, tempFiles, cursor, cmdState>>

\* installNpmPackages: the npm subprocess exits; an error rejects and is
\* caught by downloadPackage, success goes on to installComposer.
BuildExit(u) ==
  /\ ~crashed /\ ust[u] = "building"
  /\ \E ok \in BOOLEAN :
       /\ ust' = [ust EXCEPT ![u] = "settled"]
       /\ result' = [result EXCEPT ![u] = IF ok THEN "ok" ELSE "failed"]
       /\ failure' = [failure EXCEPT ![u] = IF ok THEN @ ELSE "build"]
       /\ InstallResolves(u, {})
       /\ UNCHANGED writes
       /\ ops' = [ops EXCEPT ![u] = @ \cup (IF ok THEN {"composer"} ELSE {})]
  /\ UNCHANGED <<zipVars, resVars, dlVars, wpVars, bVars, cliVars>>
  /\ UNCHANGED <<config, wpcli, pc, crashed, hops, moved, rootOf,
                 dest, atInvoke, tempExists, tempFiles, cursor, cmdState>>

\* installPackages: Promise.all(promises) resolves, then
\* if (isWPCLIAvailable() && postInstall && postInstall.length > 0).
\* The manifest declares no command or MaxCmds commands.
AllSettled ==
  /\ pc = "units" /\ ~crashed
  /\ \A u \in Pkgs : ust[u] = "settled"
  /\ \E installed \in {"yes", "no"} : wpcli' = installed
  /\ \E n \in {0, MaxCmds} :
       /\ config' = [config EXCEPT !.postInstall = [i \in 1..n |-> i]]
       /\ cmdState' = [i \in 1..n |-> "idle"]
       /\ IF Truthy(IsWPCLIAvailable) /\ n > 0
            THEN pc' = "post" /\ cursor' = 1
            ELSE pc' = "cleanup" /\ UNCHANGED cursor
  /\ UNCHANGED <<zipVars, resVars, dlVars, wpVars, bVars, cliVars>>
  /\ UNCHANGED <<crashed, ust, hops, result, ops, moved,
                 rootOf, dest, atInvoke, tempExists, tempFiles>>
  /\ UNCHANGED <<failure, reports, copied, writes>>

\* runPostInstallCommands: one iteration of the loop, exec(command).
PostSpawn ==
  /\ pc = "post" /\ ~crashed
  /\ cursor <= Len(config.postInstall)
  /\ (cursor > 1 => ExecAwaited(cursor - 1))
  /\ cmdState' = [cmdState EXCEPT ![cursor] = "running"]
  /\ cursor' = cursor + 1
  /\ UNCHANGED <<zipVars, resVars, dlVars, wpVars, bVars, cliVars>>
  /\ UNCHANGED <<config, wpcli, pc, crashed, ust, hops, result, ops, moved,
                 rootOf, dest, atInvoke, tempExists, tempFiles>>
  /\ UNCHANGED <<failure, reports, copied, writes>>

\* runPostInstallCommands returns and installPackages resolves.
PostReturn ==
  /\ pc = "post" /\ ~crashed
  /\ cursor > Len(config.postInstall)
  /\ (cursor > 1 => ExecAwaited(cursor - 1))
  /\ pc' = "cleanup"
  /\ UNCHANGED <<zipVars, resVars, dlVars, wpVars, bVars, cliVars>>
  /\ UNCHANGED <<config, wpcli, crashed, ust, hops, result, ops, moved,
                 rootOf, dest, atInvoke, tempExists, tempFiles, cursor, cmdState>>
  /\ UNCHANGED <<failure, reports, copied, writes>>

\* A post-install subprocess exits (on its own, in the operating system).
CmdExit(i) ==
  /\ i \in DOMAIN cmdState
  /\ cmdState[i] = "running"
  /\ cmdState' = [cmdState EXCEPT ![i] = "exited"]
  /\ UNCHANGED <<zipVars, resVars, dlVars, wpVars, bVars, cliVars>>
  /\ UNCHANGED <<config, wpcli, pc, crashed, ust, hops, result, ops, moved,
                 rootOf, dest, atInvoke, tempExists, tempFiles, cursor>>
  /\ UNCHANGED <<failure, reports, copied, writes>>

\* Installer.run: cleanup(this.tempDir) - fs.rmSync(dir, {recursive: true}),
\* whose ENOENT on a missing directory is caught and logged.
Cleanup ==
  /\ pc = "cleanup" /\ ~crashed
  /\ tempExists' = FALSE
  /\ tempFiles' = {}
  /\ pc' = "done"
  /\ UNCHANGED <<zipVars, resVars, dlVars, wpVars, bVars, cliVars>>
  /\ UNCHANGED <<config, wpcli, crashed, ust, hops, result, ops, moved,
                 rootOf, dest, atInvoke, cursor, cmdState>>
  /\ UNCHANGED <<failure, reports, copied, writes>>


\* --------------------------------------------- extractZip, entry by entry
EntryPaths == { <<"a", "x">>, <<"a", "">>, <<"b", "y">>, <<"c", "z">> }
ZipArchives == UNION { [1..k -> EntryPaths] : k \in 0..MaxEntries }

ZipIdle ==
  /\ zEntries = <<>>
  /\ zNext = 0
  /\ commonRootPath = <<>>
  /\ zStatus = "idle"

\* extractZip is called on an archive: let commonRootPath = "".
ZipInit ==
  /\ zEntries \in ZipArchives
  /\ zNext = 1
  /\ commonRootPath = <<>>
  /\ zStatus = "extracting"

\* extract-zip hands the next entry to onEntry.
ZipOnEntry ==
  /\ zStatus = "extracting"
  /\ zNext <= Len(zEntries)
  /\ commonRootPath' = OnEntry(commonRootPath, zEntries[zNext])
  /\ zNext' = zNext + 1
  /\ UNCHANGED <<zEntries, zStatus>>
  /\ UNCHANGED <<runVars, resVars, dlVars, wpVars, bVars, cliVars>>

\* extract() resolves and extractZip returns commonRootPath.
ZipReturn ==
  /\ zStatus = "extracting"
  /\ zNext > Len(zEntries)
  /\ zStatus' = "returned"
  /\ UNCHANGED <<zEntries, zNext, commonRootPath>>
  /\ UNCHANGED <<runVars, resVars, dlVars, wpVars, bVars, cliVars>>

\* ------------------------------------ Package.install, source resolution
ResNames == { <<"test">>,
              <<"owner", "/", "repo">>,
              <<"a", "/", "b", "/", "c">>,
              <<"https://", "x", ".", "com", "/", "p", ".", "zip">>,
              <<"http://", "x", ".", "com", "/", "r", ".", "git">> }
ResVersions == { NoVersion, <<"1", ".", "0">> }
ResSources == { NoSource,
                <<"https://", "x", ".", "com", "/", "s", ".", "zip">>,
                GitSource,
                <<"git@github", ".", "com:o", "/", "r", ".", "git">> }

ResIdle ==
  /\ rInfo = [name |-> <<"test">>, version |-> NoVersion, source |-> NoSource]
  /\ rType = "plugin"
  /\ rUrl = <<>>
  /\ rMode = "none"
  /\ rStage = "idle"

\* new Package(pkgConfig, packageType, paths) as Installer constructs it.
ResInit ==
  /\ rInfo \in [name : ResNames, version : ResVersions, source : ResSources]
  /\ rType \in {"plugin", "theme"}
  /\ rUrl = <<>>
  /\ rMode = "none"
  /\ rStage = "new"

\* Package.install: packageUrl = source || getDownloadUrl(name, version, type)
ResInstall ==
  /\ rStage = "new"
  /\ rUrl' = PackageUrl(rInfo, rType)
  /\ rStage' = "resolved"
  /\ UNCHANGED <<rInfo, rType, rMode>>
  /\ UNCHANGED <<runVars, zipVars, dlVars, wpVars, bVars, cliVars>>

\* Package.downloadPackage: cloneRepo(packageUrl) or execDownload(.., packageUrl)
ResDownloadPackage ==
  /\ rStage = "resolved"
  /\ rMode' = FetchMode(rUrl)
  /\ rStage' = "dispatched"
  /\ UNCHANGED <<rInfo, rType, rUrl>>
  /\ UNCHANGED <<runVars, zipVars, dlVars, wpVars, bVars, cliVars>>

\* ------------------------------------------ downloadFile, call by call
\* Status codes a server answers with, and the reason phrase node reports as
\* response.statusMessage.
Statuses == {200, 300, 302, 399, 400, 404}
StatusMessage(status) ==
  CASE status = 400 -> "Bad Request"
    [] status = 404 -> "Not Found"
    [] OTHER -> "OK"

\* What https.get delivers for a request: a response, handed to the callback,
\* or a low-level failure, handed to the 'error' listener.
HttpResponses == [kind : {"response"}, status : Statuses, location : BOOLEAN]
ConnError == [kind |-> "error", status |-> 0, location |-> FALSE]

\* A redirect as HTTP has it: a 3xx status with a Location header.
IsHttpRedirect(r) ==
  r.kind = "response" /\ r.status >= 300 /\ r.status <= 399 /\ r.location

\* A server's behaviour along the chain of URLs: redirects up to a last
\* answer that is none.
DlScripts ==
  UNION { { s \in [1..k -> HttpResponses \cup {ConnError}] :
              /\ \A i \in 1..(k - 1) : IsHttpRedirect(s[i])
              /\ ~IsHttpRedirect(s[k]) } : k \in 1..(MaxRedirects + 1) }

\* targetFile: absent, left by an earlier run, or holding the body of the
\* response at hop pos.
NoFile == [exists |-> FALSE, content |-> 0]
OldFile == [exists |-> TRUE, content |-> 0]
Written(pos) == [exists |-> TRUE, content |-> pos]

DlCalls == {1, 2}

DlIdle ==
  /\ dScript = <<>>
  /\ dFile = NoFile
  /\ dBefore = NoFile
  /\ dCall = 0
  /\ dStage = "idle"
  /\ dPos = 0
  /\ dReqs = [c \in DlCalls |-> 0]
  /\ dOut = [c \in DlCalls |-> "none"]
  /\ dErr = [c \in DlCalls |-> <<>>]
  /\ dActs = {}

\* Before the first call: any server, the target absent or left behind.
DlInit ==
  /\ dScript \in DlScripts
  /\ dFile \in {NoFile, OldFile}
  /\ dBefore = dFile
  /\ dCall = 0
  /\ dStage = "idle"
  /\ dPos = 0
  /\ dReqs = [c \in DlCalls |-> 0]
  /\ dOut = [c \in DlCalls |-> "none"]
  /\ dErr = [c \in DlCalls |-> <<>>]
  /\ dActs = {}

\* The existence check left out.
MutTargetNeverExists == FALSE

\* fs.existsSync(targetFile)
TargetExists == dFile.exists

\* code > 300 && code < 400 && !!response.headers.location
IsFollowed(r) == r.status > 300 /\ r.status < 400 /\ r.location

\* The caller calls downloadFile(url, targetFile): return at once when the
\* target exists, else https.get(url, ...).
DownloadFileCall ==
  /\ dStage = "idle" /\ dCall < 2 /\ dScript # <<>>
  /\ (dCall > 0 => dOut[dCall] \in {"resolved", "rejected"})
  /\ dCall' = dCall + 1
  /\ dBefore' = dFile
  /\ IF TargetExists
       THEN /\ dOut' = [dOut EXCEPT ![dCall + 1] = "resolved"]
            /\ UNCHANGED <<dStage, dPos, dReqs>>
       ELSE /\ dReqs' = [dReqs EXCEPT ![dCall + 1] = 1]
            /\ dPos' = 1
            /\ dStage' = "inflight"
            /\ UNCHANGED dOut
  /\ UNCHANGED <<dScript, dFile, dErr, dActs>>
  /\ UNCHANGED <<runVars, zipVars, resVars, wpVars, bVars, cliVars>>

\* reject(err) in the invocation that issued the request at hop dPos. At the
\* first hop the caller's await throws new Error(err). Deeper, the throw
\* happens inside the async response callback of the invocation above, whose
\* promise is then never settled: the rejection is unhandled, and the
\* caller's call hangs or the process dies of it.
DlReject(msg) ==
  IF dPos = 1
    THEN /\ dOut' = [dOut EXCEPT ![dCall] = "rejected"]
         /\ dErr' = [dErr EXCEPT ![dCall] = <<"Error: ", msg>>]
         /\ dStage' = "idle"
    ELSE /\ \E o \in {"hung", "crashed"} : dOut' = [dOut EXCEPT ![dCall] = o]
         /\ dStage' = "dead"
         /\ UNCHANGED dErr

\* The response callback: if (code >= 400) return reject(new Error(statusMessage))
ResponseError ==
  /\ dStage = "inflight"
  /\ dScript[dPos].kind = "response" /\ dScript[dPos].status >= 400
  /\ DlReject(StatusMessage(dScript[dPos].status))
  /\ dActs' = dActs \cup {[call |-> dCall, pos |-> dPos, act |-> "rejected"]}
  /\ UNCHANGED <<dScript, dFile, dBefore, dCall, dPos, dReqs>>
  /\ UNCHANGED <<runVars, zipVars, resVars, wpVars, bVars, cliVars>>

\* The response callback: resolve(await downloadFile(location, targetFile)),
\* which checks the target again and issues the next request.
ResponseRedirect ==
  /\ dStage = "inflight"
  /\ dScript[dPos].kind = "response" /\ dScript[dPos].status < 400
  /\ IsFollowed(dScript[dPos])
  /\ IF TargetExists
       THEN /\ dOut' = [dOut EXCEPT ![dCall] = "resolved"]
            /\ dStage' = "idle"
            /\ dActs' = dActs \cup {[call |-> dCall, pos |-> dPos, act |-> "skipped"]}
            /\ UNCHANGED <<dPos, dReqs>>
       ELSE /\ dReqs' = [dReqs EXCEPT ![dCall] = @ + 1]
            /\ dPos' = dPos + 1
            /\ dActs' = dActs \cup {[call |-> dCall, pos |-> dPos, act |-> "followed"]}
            /\ UNCHANGED <<dOut, dStage>>
  /\ UNCHANGED <<dScript, dFile, dBefore, dCall, dErr>>
  /\ UNCHANGED <<runVars, zipVars, resVars, wpVars, bVars, cliVars>>

\* The response callback: response.pipe(fs.createWriteStream(targetFile)),
\* and resolve on 'finish'; every invocation above resolves with it.
ResponseBody ==
  /\ dStage = "inflight"
  /\ dScript[dPos].kind = "response" /\ dScript[dPos].status < 400
  /\ ~IsFollowed(dScript[dPos])
  /\ dFile' = Written(dPos)
  /\ dOut' = [dOut EXCEPT ![dCall] = "resolved"]
  /\ dStage' = "idle"
  /\ dActs' = dActs \cup {[call |-> dCall, pos |-> dPos, act |-> "written"]}
  /\ UNCHANGED <<dScript, dBefore, dCall, dPos, dReqs, dErr>>
  /\ UNCHANGED <<runVars, zipVars, resVars, wpVars, bVars, cliVars>>

\* .on('error', (error) => reject(error))
RequestError ==
  /\ dStage = "inflight"
  /\ dScript[dPos].kind = "error"
  /\ DlReject("ECONNRESET")
  /\ dActs' = dActs \cup {[call |-> dCall, pos |-> dPos, act |-> "failed"]}
  /\ UNCHANGED <<dScript, dFile, dBefore, dCall, dPos, dReqs>>
  /\ UNCHANGED <<runVars, zipVars, resVars, wpVars, bVars, cliVars>>

\* ------------------------------------------- getWordPressDownloadUrl
\* The language argument is kept letter by letter: startsWith('en'),
\* slice(0, 2) and toLowerCase() look inside it. The version is opaque.
LangLen == 3
Letters == {"e", "n", "E", "N", "i", "T", "_"}
LangTexts == UNION { [1..k -> Letters] : k \in 0..LangLen }

\* An argument: given with its text, or not given (undefined).
NotGiven == [given |-> FALSE, text |-> <<>>]
Languages == {NotGiven} \cup [given : {TRUE}, text : LangTexts]
WpVersions == { <<"latest">>, <<"5", ".", "7", ".", "1">> }

\* String.prototype.toLowerCase(), letter by letter.
ToLowerCase(t) ==
  [i \in 1..Len(t) |-> CASE t[i] = "E" -> "e"
                         [] t[i] = "N" -> "n"
                         [] t[i] = "T" -> "t"
                         [] OTHER -> t[i]]

\* String.prototype.slice(0, n)
SliceTo(t, n) == SubSeq(t, 1, IF n < Len(t) THEN n ELSE Len(t))

\* language.startsWith('en')
StartsWithEn(t) == Len(t) >= 2 /\ t[1] = "e" /\ t[2] = "n"

\* The sub-domain taken as the whole language code.
MutWholeLanguage(t) == t

\* language.slice(0, 2).toLowerCase()
LanguageHost(t) == ToLowerCase(SliceTo(t, 2))

\* getWordPressDownloadUrl(version, language); an argument not given and the
\* empty string are both falsy.
GetWordPressDownloadUrl(version, language) ==
  IF language.given /\ language.text # <<>> /\ ~StartsWithEn(language.text)
    THEN <<"https://">> \o LanguageHost(language.text)
           \o <<".", "wordpress", ".", "org", "/", "wordpress", "-">> \o version
           \o <<"-">> \o language.text \o <<".", "zip">>
    ELSE <<"https://", "wordpress", ".", "org", "/", "wordpress", "-">> \o version
           \o <<".", "zip">>

WpIdle ==
  /\ wVersion = <<>>
  /\ wLanguage = NotGiven
  /\ wUrl = <<>>
  /\ wStage = "idle"

WpInit ==
  /\ wVersion \in WpVersions
  /\ wLanguage \in Languages
  /\ wUrl = <<>>
  /\ wStage = "new"

\* const downloadUrl = getWordPressDownloadUrl(version, language)
GetWordPressUrlCall ==
  /\ wStage = "new"
  /\ wUrl' = GetWordPressDownloadUrl(wVersion, wLanguage)
  /\ wStage' = "resolved"
  /\ UNCHANGED <<wVersion, wLanguage>>
  /\ UNCHANGED <<runVars, zipVars, resVars, dlVars, bVars, cliVars>>

\* ------------------- downloadPackage after relocation: the build steps
BuildFiles == {"package.json", "package-lock.json", "composer.json"}

BuildIdle ==
  /\ bFiles = {}
  /\ bValid = FALSE
  /\ bStage = "idle"
  /\ bChildren = <<>>

\* The package has just been relocated (or cloned) into pkgFolder.
BuildInit ==
  /\ bFiles \in SUBSET BuildFiles
  /\ bValid \in BOOLEAN
  /\ (bValid => "package.json" \in bFiles)
  /\ bStage = "relocated"
  /\ bChildren = <<>>

\* The lockfile ignored.
MutAlwaysNpmInstall(lockfile) == "npm i && npm run build"

\* installNpmPackages: command = 'npm i && npm run build', replaced by
\* 'npm ci && npm run build' if (fs.existsSync(packageLockPath)).
NpmCommand(lockfile) ==
  IF lockfile THEN "npm ci && npm run build" ELSE "npm i && npm run build"

Spawn(command) == [command |-> command, state |-> "running"]

\* await installNpmPackages(pkgFolder): return when there is no package.json,
\* throw when it does not parse, else exec(command) inside a promise that the
\* child's exit callback settles.
InstallNpmPackages ==
  /\ bStage = "relocated"
  /\ IF "package.json" \notin bFiles
       THEN bStage' = "composer" /\ UNCHANGED bChildren
       ELSE IF ~bValid
         THEN bStage' = "failed" /\ UNCHANGED bChildren
         ELSE /\ bChildren' = Append(bChildren, Spawn(NpmCommand("package-lock.json" \in bFiles)))
              /\ bStage' = "npm"
  /\ UNCHANGED <<bFiles, bValid>>
  /\ UNCHANGED <<runVars, zipVars, resVars, dlVars, wpVars, cliVars>>

\* The npm subprocess exits: exec's callback rejects on error (caught by
\* downloadPackage) and resolves otherwise.
NpmExit ==
  /\ bStage = "npm"
  /\ \E ok \in BOOLEAN :
       /\ bChildren' = [bChildren EXCEPT ![1].state = IF ok THEN "exited" ELSE "errored"]
       /\ bStage' = IF ok THEN "composer" ELSE "failed"
  /\ UNCHANGED <<bFiles, bValid>>
  /\ UNCHANGED <<runVars, zipVars, resVars, dlVars, wpVars, cliVars>>

\* await installComposer(pkgFolder): exec('composer install --no-dev') and
\* exec('composer dumpautoload -o'), each returning a ChildProcess that the
\* await does not wait for; then downloadPackage returns.
InstallComposer ==
  /\ bStage = "composer"
  /\ bChildren' = bChildren \o << Spawn("composer install --no-dev"),
                                  Spawn("composer dumpautoload -o") >>
  /\ bStage' = "done"
  /\ UNCHANGED <<bFiles, bValid>>
  /\ UNCHANGED <<runVars, zipVars, resVars, dlVars, wpVars, cliVars>>

\* A composer subprocess exits, on its own.
ComposerExit(i) ==
  /\ bStage = "done"
  /\ i \in DOMAIN bChildren
  /\ bChildren[i].state = "running"
  /\ \E st \in {"exited", "errored"} :
       bChildren' = [bChildren EXCEPT ![i].state = st]
  /\ UNCHANGED <<bFiles, bValid, bStage>>
  /\ UNCHANGED <<runVars, zipVars, resVars, dlVars, wpVars, cliVars>>

\* ------------------------------- getWordPressPaths and the core's folder
\* export const DefaultWpInstallFolder = 'wordpress'
DefaultWpInstallFolder == <<"wordpress">>

CwdPaths == { <<"home">>, <<"home", "site">>, <<"srv", "www", "blog">> }

\* config.wordpress.name: a string, possibly empty, or missing from the file.
WebsiteNames ==
  {NotGiven} \cup [given : {TRUE}, text : {<<>>, <<"wordpress">>, <<"blog">>, <<"shop">>}]

NoPaths ==
  [tempDir |-> <<>>, baseFolder |-> <<>>, destFolder |-> <<>>,
   pluginsFolder |-> <<>>, themeFolder |-> <<>>]

\* getWordPressPaths(websiteName, baseFolder = process.cwd()); isWp is
\* isWordpressFolder(baseFolder), and path.join drops an empty segment.
GetWordPressPaths(websiteName, baseFolder, isWp) ==
  LET base == IF ~isWp
                THEN PathJoin(baseFolder, IF websiteName.given THEN websiteName.text
                                          ELSE DefaultWpInstallFolder)
                ELSE baseFolder
  IN [tempDir |-> PathJoin(base, <<"temp">>),
      baseFolder |-> base,
      destFolder |-> base,
      pluginsFolder |-> PathJoin(base, <<"wp-content", "plugins">>),
      themeFolder |-> PathJoin(base, <<"wp-content", "themes">>)]

\* Package.getDestFolder(paths, packageType)
GetDestFolder(paths, packageType) ==
  IF packageType = "plugin" THEN paths.pluginsFolder
  ELSE IF packageType = "theme" THEN paths.themeFolder
  ELSE paths.baseFolder

\* installWordPress: destinationPath = path.join(this.destFolder, this.pkgInfo.name)
DestinationPath(paths, name) == PathJoin(GetDestFolder(paths, "wordpress"), name)

PathIdle == pth = [stage |-> "idle"]

\* The entry point has its configuration and is about to compute the paths.
PathInit ==
  pth \in [cwd : CwdPaths, isWp : BOOLEAN, name : WebsiteNames, exists : BOOLEAN,
           paths : {NoPaths}, coreAt : {<<>>}, stage : {"new"}]

\* index.ts: const paths = getWordPressPaths(config.wordpress.name)
GetWordPressPathsCall ==
  /\ pth.stage = "new"
  /\ pth' = [pth EXCEPT !.paths = GetWordPressPaths(pth.name, pth.cwd, pth.isWp),
                        !.stage = "paths"]
  /\ UNCHANGED <<runVars, zipVars, resVars, dlVars, wpVars, bVars>>
  /\ UNCHANGED <<main, ini, upd>>

\* WpPackage.installWordPress with the download and the extraction going
\* well: path.join throws on a name that is not a string (caught and
\* logged), an existing destination is skipped, otherwise
\* renameFolder(path.join(tempDir, 'wordpress'), destinationPath).
InstallWordPress ==
  /\ pth.stage = "paths"
  /\ IF ~pth.name.given
       THEN pth' = [pth EXCEPT !.stage = "failed"]
       ELSE LET destinationPath == DestinationPath(pth.paths, pth.name.text)
            IN IF pth.exists \/ destinationPath = pth.cwd
                 THEN pth' = [pth EXCEPT !.stage = "skipped"]
                 ELSE pth' = [pth EXCEPT !.stage = "installed", !.coreAt = destinationPath]
  /\ UNCHANGED <<runVars, zipVars, resVars, dlVars, wpVars, bVars>>
  /\ UNCHANGED <<main, ini, upd>>

\* ------------------------------------------ the CLI entry point, index.ts
MaxKeys == 2
MainKeys == {"install", "info", "update", "bogus"}
MainArgvs == UNION { [1..k -> MainKeys] : k \in 0..MaxKeys }

\* getConfig(argv).then(cb).catch(log).finally(exit): when cb has returned,
\* the catch pass-through and then the finally callback are each one
\* microtask hop away, so whatever cb has started gets two generations of
\* microtasks before process.exit(0), and no I/O callback at all.
TicksBeforeExit == 2

\* Installer.run awaits installPackages, which awaits wp.install(), which
\* awaits installWordPress and then setupWordPressConfig: installPackages
\* resumes three generations after the call at the earliest, later when
\* anything is downloaded.
InstallAwaits == 3

\* The generations a dispatched action needs before its promise settles.
\* update: Updater.run makes calls awaited update calls, one hop each.
Need(key, calls) ==
  IF key = "install" THEN InstallAwaits
  ELSE IF key = "update" THEN calls
  ELSE 0

\* launcher.invokeAction(key, argv): the action's synchronous stretch.
InvokeAction(key, calls) ==
  IF key \notin {"install", "info", "update"} THEN [key |-> key, state |-> "invalid"]
  ELSE IF Need(key, calls) = 0 THEN [key |-> key, state |-> "settled"]
  ELSE [key |-> key, state |-> "pending"]

MainIdle == main = [stage |-> "idle"]

\* The script has been started and getConfig(argv) is pending.
MainInit ==
  main \in [argv : MainArgvs, config : {"resolves", "rejects"}, calls : 0..3,
            jobs : {<<>>}, gen : {0}, stage : {"start"}]

\* The then-callback: paths, launcher, and the loop over the keys, each
\* invokeAction returning as soon as the action has reached its first await.
ConfigResolves ==
  /\ main.stage = "start" /\ main.config = "resolves"
  /\ main' = [main EXCEPT
                !.jobs = [i \in 1..Len(main.argv) |-> InvokeAction(main.argv[i], main.calls)],
                !.stage = "dispatched"]
  /\ UNCHANGED <<runVars, zipVars, resVars, dlVars, wpVars, bVars>>
  /\ UNCHANGED <<pth, ini, upd>>

\* .catch((err) => console.error(err))
ConfigRejects ==
  /\ main.stage = "start" /\ main.config = "rejects"
  /\ main' = [main EXCEPT !.stage = "caught"]
  /\ UNCHANGED <<runVars, zipVars, resVars, dlVars, wpVars, bVars>>
  /\ UNCHANGED <<pth, ini, upd>>

\* One generation of microtasks: every pending job advances by one await.
MicroGeneration ==
  /\ main.stage = "dispatched" /\ main.gen < TicksBeforeExit
  /\ main' = [main EXCEPT
                !.gen = @ + 1,
                !.jobs = [i \in DOMAIN main.jobs |->
                            IF /\ main.jobs[i].state = "pending"
                               /\ Need(main.jobs[i].key, main.calls) <= main.gen + 1
                              THEN [main.jobs[i] EXCEPT !.state = "settled"]
                              ELSE main.jobs[i]]]
  /\ UNCHANGED <<runVars, zipVars, resVars, dlVars, wpVars, bVars>>
  /\ UNCHANGED <<pth, ini, upd>>

\* .finally(() => { printTimePassed(startTime); process.exit(0) }): whatever
\* is still pending dies with the process.
ProcessExit ==
  /\ \/ main.stage = "dispatched" /\ main.gen = TicksBeforeExit
     \/ main.stage = "caught"
  /\ main' = [main EXCEPT
                !.stage = "exited",
                !.jobs = [i \in DOMAIN main.jobs |->
                            IF main.jobs[i].state = "pending"
                              THEN [main.jobs[i] EXCEPT !.state = "killed"]
                              ELSE main.jobs[i]]]
  /\ UNCHANGED <<runVars, zipVars, resVars, dlVars, wpVars, bVars>>
  /\ UNCHANGED <<pth, ini, upd>>

\* ------------------------------------------------ Initialize, --init
\* export const PkgFileName = 'wp-package.json'
PkgFileName == <<"wp-package.json">>

WpFolders == { <<"home", "site">>, <<"srv">>, <<>> }

NoConfig == [origin |-> "none", name |-> <<>>, version |-> "none"]
UserConfigs ==
  { [origin |-> "user", name |-> <<"mysite">>, version |-> "6.0"],
    [origin |-> "user", name |-> <<"shop">>, version |-> "latest"] }

\* What can lie at outputPath = path.join(wpFolder, PkgFileName): nothing, a
\* configuration file, or a directory that holds a file named
\* wp-package.json or does not.
InitTargets ==
  {[kind |-> "absent", content |-> NoConfig, inner |-> FALSE]}
    \cup [kind : {"file"}, content : UserConfigs, inner : {FALSE}]
    \cup [kind : {"dir"}, content : {NoConfig}, inner : BOOLEAN]

\* hasConfig: fs.existsSync(path.join(this.outputPath, PkgFileName)). Below
\* a regular file nothing exists.
HasConfig == ini.target.kind = "dir" /\ ini.target.inner

\* this.wpFolder.split(path.sep).pop() || DefaultWpInstallFolder
FolderName(wpFolder) ==
  IF wpFolder = <<>> THEN DefaultWpInstallFolder ELSE <<wpFolder[Len(wpFolder)]>>

\* The object generateConfig builds when it does not read the file.
DefaultConfig(version) ==
  [origin |-> "generated", name |-> FolderName(ini.wpFolder), version |-> version]

InitIdle == ini = [stage |-> "idle"]

\* new Initialize(wpFolder). The init action passes no options; initConfig
\* passes the version the user asked for.
InitInit ==
  /\ ini \in [wpFolder : WpFolders, target : InitTargets, before : InitTargets,
              options : {"none", "version"}, check : {"version", "none", "fails"},
              result : {NoConfig}, stage : {"new"}]
  /\ ini.before = ini.target

\* generateConfig up to its await: readConfig when hasConfig(), that is
\* JSON.parse(fs.readFileSync(outputPath)), which throws on a directory;
\* else the default object, whose version may need getWpVersionCheck().
GenerateConfig ==
  /\ ini.stage = "new"
  /\ IF HasConfig
       THEN IF ini.target.kind = "file"
              THEN ini' = [ini EXCEPT !.result = ini.target.content, !.stage = "generated"]
              ELSE ini' = [ini EXCEPT !.stage = "rejected"]
       ELSE IF ini.options = "version"
              THEN ini' = [ini EXCEPT !.result = DefaultConfig("asked"), !.stage = "generated"]
              ELSE ini' = [ini EXCEPT !.stage = "checking"]
  /\ UNCHANGED <<runVars, zipVars, resVars, dlVars, wpVars, bVars>>
  /\ UNCHANGED <<pth, main, upd>>

\* (await getWpVersionCheck()).offers[0].version || 'latest'
VersionCheckReturns ==
  /\ ini.stage = "checking"
  /\ IF ini.check = "fails"
       THEN ini' = [ini EXCEPT !.stage = "rejected"]
       ELSE ini' = [ini EXCEPT
                      !.result = DefaultConfig(IF ini.check = "version" THEN "offered"
                                               ELSE "latest"),
                      !.stage = "generated"]
  /\ UNCHANGED <<runVars, zipVars, resVars, dlVars, wpVars, bVars>>
  /\ UNCHANGED <<pth, main, upd>>

\* writeConfig(result): fs.writeFileSync(outputPath, JSON.stringify(result)),
\* which throws on a directory.
WriteConfig ==
  /\ ini.stage = "generated"
  /\ IF ini.target.kind = "dir"
       THEN ini' = [ini EXCEPT !.stage = "rejected"]
       ELSE ini' = [ini EXCEPT
                      !.target = [kind |-> "file", content |-> ini.result, inner |-> FALSE],
                      !.stage = "written"]
  /\ UNCHANGED <<runVars, zipVars, resVars, dlVars, wpVars, bVars>>
  /\ UNCHANGED <<pth, main, upd>>

\* ------------------------------------------------------ Updater, --update
Flags == {"true", "false", "unset"}
UpdateTargets == {"wordpress", "plugins", "themes"}
UpdateArgs == [all : Flags, plugins : Flags, themes : Flags, wordpress : Flags]

\* isValidUpdateOptions: each of all, wordpress, themes, plugins is a boolean.
IsValidUpdateOptions(obj) ==
  /\ obj.all # "unset" /\ obj.wordpress # "unset"
  /\ obj.themes # "unset" /\ obj.plugins # "unset"

\* Updater.run: const updateObject = { updateAll: argv.plugins, ... }
UpdateObject(argv) ==
  [updateAll |-> argv.plugins = "true",
   updatePlugins |-> argv.plugins = "true",
   updateThemes |-> argv.themes = "true",
   updateWordPress |-> argv.wordpress = "true"]

\* Updater.run: the awaited update calls, in the order the branches make them.
UpdatePlan(argv) ==
  LET o == UpdateObject(argv)
  IN IF o.updateAll
       THEN <<"wordpress", "plugins", "themes">>
       ELSE (IF o.updatePlugins THEN <<"plugins">> ELSE <<>>)
              \o (IF o.updateThemes THEN <<"themes">> ELSE <<>>)
              \o (IF o.updateWordPress THEN <<"wordpress">> ELSE <<>>)

UpdIdle == upd = [stage |-> "idle"]

UpdInit ==
  upd \in [argv : UpdateArgs, queue : {<<>>}, done : {<<>>}, stage : {"new"}]

\* The update action: if (argv && isValidUpdateOptions(argv)) updater.run(argv),
\* else the usage message.
UpdateAction ==
  /\ upd.stage = "new"
  /\ IF IsValidUpdateOptions(upd.argv)
       THEN upd' = [upd EXCEPT !.queue = UpdatePlan(upd.argv), !.stage = "running"]
       ELSE upd' = [upd EXCEPT !.stage = "refused"]
  /\ UNCHANGED <<runVars, zipVars, resVars, dlVars, wpVars, bVars>>
  /\ UNCHANGED <<pth, main, ini>>

\* await this.updateWordPress() / updatePlugins() / updateThemes()
UpdateCall ==
  /\ upd.stage = "running" /\ upd.queue # <<>>
  /\ upd' = [upd EXCEPT !.done = Append(@, Head(upd.queue)), !.queue = Tail(@)]
  /\ UNCHANGED <<runVars, zipVars, resVars, dlVars, wpVars, bVars>>
  /\ UNCHANGED <<pth, main, ini>>

\* Updater.run returns.
UpdaterReturn ==
  /\ upd.stage = "running" /\ upd.queue = <<>>
  /\ upd' = [upd EXCEPT !.stage = "done"]
  /\ UNCHANGED <<runVars, zipVars, resVars, dlVars, wpVars, bVars>>
  /\ UNCHANGED <<pth, main, ini>>

CliIdle == PathIdle /\ MainIdle /\ InitIdle /\ UpdIdle
OtherIdle == RunIdle /\ ZipIdle /\ ResIdle /\ DlIdle /\ WpIdle /\ BuildIdle

\* -------------------------------------------------------- specifications
Init == RunInit /\ ZipIdle /\ ResIdle /\ DlIdle /\ WpIdle /\ BuildIdle /\ CliIdle

Next ==
  \/ RunStart
  \/ StartPkgs
  \/ \E u \in AllUnits : FetchError(u)
  \/ \E u \in AllUnits : FetchErrorAfterRedirect(u)
  \/ \E u \in AllUnits : FetchRedirect(u)
  \/ \E u \in AllUnits : FetchSuccess(u)
  \/ \E u \in AllUnits : ExtractFail(u)
  \/ \E u \in AllUnits : ExtractOk(u)
  \/ \E u \in Pkgs : CloneExit(u)
  \/ \E u \in Pkgs : BuildExit(u)
  \/ AllSettled
  \/ PostSpawn
  \/ PostReturn
  \/ \E i \in 1..MaxCmds : CmdExit(i)
  \/ Cleanup

Spec == Init /\ [][Next]_vars

InitZip == RunIdle /\ ZipInit /\ ResIdle /\ DlIdle /\ WpIdle /\ BuildIdle /\ CliIdle

NextZip ==
  \/ ZipOnEntry
  \/ ZipReturn

SpecZip == InitZip /\ [][NextZip]_vars

InitResolve == RunIdle /\ ZipIdle /\ ResInit /\ DlIdle /\ WpIdle /\ BuildIdle /\ CliIdle

NextResolve ==
  \/ ResInstall
  \/ ResDownloadPackage

SpecResolve == InitResolve /\ [][NextResolve]_vars

InitDownload == RunIdle /\ ZipIdle /\ ResIdle /\ DlInit /\ WpIdle /\ BuildIdle /\ CliIdle

NextDownload ==
  \/ DownloadFileCall
  \/ ResponseError
  \/ ResponseRedirect
  \/ ResponseBody
  \/ RequestError

SpecDownload == InitDownload /\ [][NextDownload]_vars

InitWpUrl == RunIdle /\ ZipIdle /\ ResIdle /\ DlIdle /\ WpInit /\ BuildIdle /\ CliIdle

NextWpUrl ==
  \/ GetWordPressUrlCall

SpecWpUrl == InitWpUrl /\ [][NextWpUrl]_vars

InitBuild == RunIdle /\ ZipIdle /\ ResIdle /\ DlIdle /\ WpIdle /\ BuildInit /\ CliIdle

NextBuild ==
  \/ InstallNpmPackages
  \/ NpmExit
  \/ InstallComposer
  \/ \E i \in 1..3 : ComposerExit(i)

SpecBuild == InitBuild /\ [][NextBuild]_vars

InitPaths == OtherIdle /\ PathInit /\ MainIdle /\ InitIdle /\ UpdIdle

NextPaths ==
  \/ GetWordPressPathsCall
  \/ InstallWordPress

SpecPaths == InitPaths /\ [][NextPaths]_vars

InitMain == OtherIdle /\ PathIdle /\ MainInit /\ InitIdle /\ UpdIdle

NextMain ==
  \/ ConfigResolves
  \/ ConfigRejects
  \/ MicroGeneration
  \/ ProcessExit

SpecMain == InitMain /\ [][NextMain]_vars

InitInitialize == OtherIdle /\ PathIdle /\ MainIdle /\ InitInit /\ UpdIdle

NextInitialize ==
  \/ GenerateConfig
  \/ VersionCheckReturns
  \/ WriteConfig

SpecInitialize == InitInitialize /\ [][NextInitialize]_vars

InitUpdate == OtherIdle /\ PathIdle /\ MainIdle /\ InitIdle /\ UpdInit

NextUpdate ==
  \/ UpdateAction
  \/ UpdateCall
  \/ UpdaterReturn

SpecUpdate == InitUpdate /\ [][NextUpdate]_vars


\* ------------------------------------------------------------ properties
PluralRole(type) == IF type = "plugin" THEN "plugins" ELSE "themes"
RegistryBase == <<"https://", "downloads", ".", "wordpress", ".", "org", "/">>
VcsBase == <<"https://", "github", ".", "com", "/">>
IsPrefix(p, s) == Len(p) <= Len(s) /\ SubSeq(s, 1, Len(p)) = p
HasSlash(s) == \E i \in 1..Len(s) : s[i] = "/"
IsOwnerRepo(s) ==
  LET parts == SplitOn(s, "/")
  IN Len(parts) = 2 /\ parts[1] # <<>> /\ parts[2] # <<>>

\* C1: when the manifest declares a core system, no plugin or theme unit has
\* been started unless the core unit's install has run to completion.
C1_CoreBeforeUnits ==
  config.wordpress =>
    \A u \in Pkgs : ust[u] # "pending" => ust[Core] = "settled"

\* C1 happens: the core was downloaded and relocated, and a unit has fetched.
C1_Witness ==
  /\ config.wordpress
  /\ "relocate" \in ops[Core]
  /\ \E u \in Pkgs : "fetch" \in ops[u]

\* C2: a failure in one plugin or theme unit never cancels or blocks its
\* siblings, and installPackages completes: once a unit has failed, the process has not
\* died (which cancels every running sibling) and no unit's install() promise
\* stays pending for ever (which keeps Promise.all from ever resolving).
C2_FailureIsolation ==
  (\E u \in Pkgs : result[u] = "failed") =>
    (~crashed /\ \A v \in Pkgs : ust[v] # "hung")

\* C3: whenever Installer.run has ended, normally or with the process dying
\* of a unit's failure, tempDir has been removed.
C3_TempDirRemoved ==
  (pc = "done" \/ crashed) => ~tempExists

\* C4: a unit whose destination folder existed when install() was invoked
\* performs no fetch, clone, extraction, relocation or secondary build and
\* leaves the folder's content as it was.
C4_SkipIfExists ==
  \A u \in AllUnits :
    atInvoke[u] \notin {"notyet", "absent"} =>
      (ops[u] = {} /\ dest[u] = atInvoke[u])

\* C4 happens: a unit was skipped while a sibling went through relocation.
C4_Witness ==
  \E u, v \in Pkgs :
    /\ atInvoke[u] = "stale" /\ ust[u] = "settled"
    /\ "relocate" \in ops[v]

\* C5: post-install command i+1 is started only after command i has exited.
C5_CommandsSequential ==
  \A i \in DOMAIN cmdState :
    (i > 1 /\ cmdState[i] # "idle") => cmdState[i - 1] = "exited"

\* C6: a post-install command is executed only if the wp command line tool
\* is available on the host and the manifest declares a command.
C6_CommandsOnlyWithCli ==
  (\E i \in DOMAIN cmdState : cmdState[i] # "idle") =>
    (wpcli = "yes" /\ Len(config.postInstall) > 0)

\* C7: the source is chosen by first match: an absolute http(s) URL given as
\* source or name is the archive URL verbatim; otherwise a source ending in
\* .git is cloned; otherwise an owner/repo name yields a VCS archive URL;
\* otherwise the registry URL is synthesized.
C7_ResolutionOrder ==
  rStage = "dispatched" =>
    IF StartsWithHttp(rInfo.source)
      THEN rMode = "archive" /\ rUrl = rInfo.source
    ELSE IF StartsWithHttp(rInfo.name)
      THEN rMode = "archive" /\ rUrl = rInfo.name
    ELSE IF rInfo.source # NoSource /\ IsGitUrl(rInfo.source)
      THEN rMode = "clone" /\ rUrl = rInfo.source
    ELSE IF IsOwnerRepo(rInfo.name)
      THEN rMode = "archive" /\ IsPrefix(VcsBase \o rInfo.name, rUrl)
    ELSE rMode = "archive" /\ IsPrefix(RegistryBase, rUrl)

\* C8: a plugin (theme) unit with a slash-free, non-URL name and no source
\* requests https://downloads.wordpress.org/plugins/<name>[.<version>].zip
\* (.../themes/...), the version suffix present exactly when a version is given.
C8_RegistryUrl ==
  (rStage = "dispatched" /\ rInfo.source = NoSource
     /\ ~HasSlash(rInfo.name) /\ ~StartsWithHttp(rInfo.name)) =>
    /\ rMode = "archive"
    /\ rUrl = RegistryBase \o <<PluralRole(rType), "/">> \o rInfo.name
                \o (IF rInfo.version # NoVersion THEN <<".">> \o rInfo.version ELSE <<>>)
                \o <<".", "zip">>

\* C9: the root extractZip returns is the common first segment when all
\* entries share one, and empty whenever two entries differ in their first
\* segment.
C9_CommonRoot ==
  zStatus = "returned" =>
    LET firsts == {zEntries[i][1] : i \in 1..Len(zEntries)}
    IN /\ (\E s \in firsts : firsts = {s}) => commonRootPath = <<CHOOSE s \in firsts : TRUE>>
       /\ Cardinality(firsts) >= 2 => commonRootPath = <<>>

\* C10: when extraction reported an empty root, the unit relocates
\* tempDir/<name>, not tempDir itself.
C10_EmptyRootMovesNameFolder ==
  \A u \in Pkgs :
    ("relocate" \in ops[u] /\ rootOf[u] = <<>>) =>
      /\ moved[u] = PathJoin(TempDir, config.pkgs[u].name)
      /\ moved[u] # TempDir

IsSuccess(r) == r.kind = "response" /\ r.status >= 200 /\ r.status <= 299
ActsOf(c) == {a \in dActs : a.call = c}

\* C11 (as stated): two calls of downloadFile with the same destination file
\* perform exactly one network request; the second call issues none and does
\* not modify the file.
C11_TwoCallsOneRequest ==
  (dCall = 2 /\ dOut[2] # "none") =>
    /\ dReqs[1] + dReqs[2] = 1
    /\ dReqs[2] = 0
    /\ dFile = dBefore

\* C11 (amended): when the first call resolved, the second call resolves
\* without issuing a request and without modifying the file; the first call
\* issued one request per response it received, so the two calls perform
\* exactly one request when the first call wrote the body of its first
\* response.
C11_SecondCallSkips ==
  (dCall = 2 /\ dOut[1] = "resolved") =>
    /\ dOut[2] = "resolved"
    /\ dReqs[2] = 0
    /\ dFile = dBefore
    /\ dReqs[1] = Cardinality(ActsOf(1))
    /\ (dFile = Written(1) => dReqs[1] + dReqs[2] = 1)

\* C11 happens: the first call downloaded the file with one request and the
\* second call has returned.
C11_Witness ==
  /\ dCall = 2 /\ dOut[1] = "resolved" /\ dOut[2] = "resolved"
  /\ dFile = Written(1) /\ dReqs[1] = 1

\* C12: every response with a status in 300..399 and a Location header makes
\* downloadFile issue a new request for the same destination, and its body is
\* not written to the destination file.
C12_RedirectFollowed ==
  \A a \in dActs :
    IsHttpRedirect(dScript[a.pos]) =>
      /\ a.act = "followed"
      /\ dFile # Written(a.pos)

\* C13: against a chain of n redirect responses followed by a success
\* response, a call that found no destination file never issues more than n+1
\* requests and, once it is no longer in flight, has resolved after exactly
\* n+1 requests with the terminal response's body in the file.
C13_ChainTerminates ==
  LET n == Len(dScript) - 1
  IN (dCall = 1 /\ ~dBefore.exists /\ IsSuccess(dScript[n + 1])) =>
       /\ dReqs[1] <= n + 1
       /\ dStage # "inflight" =>
            /\ dOut[1] = "resolved"
            /\ dReqs[1] = n + 1
            /\ dFile = Written(n + 1)

\* C14: a response with status >= 400 makes the call of downloadFile fail
\* with an error carrying the response's status message, and the call creates
\* no destination file.
C14_ErrorStatusFails ==
  \A a \in dActs :
    (dScript[a.pos].kind = "response" /\ dScript[a.pos].status >= 400) =>
      /\ dOut[a.call] = "rejected"
      /\ dErr[a.call] = <<"Error: ", StatusMessage(dScript[a.pos].status)>>
      /\ (a.call = dCall => dFile = dBefore)

\* C18: getWordPressDownloadUrl returns https://wordpress.org/wordpress-
\* <version>.zip when the language is absent (not given, or empty) or begins
\* with "en", and otherwise https://<first two letters of the language,
\* lower-cased>.wordpress.org/wordpress-<version>-<language>.zip.
C18_WordPressUrl ==
  wStage = "resolved" =>
    LET t == wLanguage.text
        absent == ~wLanguage.given \/ t = <<>>
        english == Len(t) >= 2 /\ SubSeq(t, 1, 2) = <<"e", "n">>
        two == ToLowerCase(IF Len(t) >= 2 THEN SubSeq(t, 1, 2) ELSE t)
    IN IF absent \/ english
         THEN wUrl = <<"https://", "wordpress", ".", "org", "/", "wordpress", "-">>
                       \o wVersion \o <<".", "zip">>
         ELSE wUrl = <<"https://">> \o two
                       \o <<".", "wordpress", ".", "org", "/", "wordpress", "-">>
                       \o wVersion \o <<"-">> \o t \o <<".", "zip">>

\* C18 happens: a three-letter language with upper-case letters, not English,
\* was resolved to a localized URL.
C18_Witness ==
  /\ wStage = "resolved"
  /\ wLanguage.given /\ Len(wLanguage.text) = 3
  /\ wLanguage.text[1] = "i" /\ wLanguage.text[2] = "T"
  /\ wUrl[2] = "i" /\ wUrl[3] = "t"

\* C15: a name owner/repo (one slash, both sides non-empty) without explicit
\* source resolves to https://github.com/<owner>/<repo>/archive/refs/tags/
\* <version> when a version is given and to .../archive/refs/heads/<default
\* branch> when none is, <owner> and <repo> being the two sides of the name.
C15_OwnerRepoArchiveUrl ==
  (rStage = "dispatched" /\ rInfo.source = NoSource /\ IsOwnerRepo(rInfo.name)) =>
    LET parts == SplitOn(rInfo.name, "/")
        repoBase == VcsBase \o parts[1] \o <<"/">> \o parts[2]
                      \o <<"/", "archive", "/", "refs", "/">>
    IN IF rInfo.version # NoVersion
         THEN rUrl = repoBase \o <<"tags", "/">> \o rInfo.version
         ELSE \E branch \in {"master", "main"} : rUrl = repoBase \o <<"heads", "/", branch>>

\* C16: a name with a slash that is neither an absolute URL nor a well-formed
\* owner/repo, given without source, is rejected: the unit never dispatches a
\* download or a clone for it.
C16_MalformedNameRejected ==
  (rInfo.source = NoSource /\ HasSlash(rInfo.name)
     /\ ~StartsWithHttp(rInfo.name) /\ ~IsOwnerRepo(rInfo.name)) =>
    (rStage = "dispatched" => rMode \notin {"archive", "clone"})

NpmChildren == {i \in DOMAIN bChildren : bChildren[i].command \notin
                  {"composer install --no-dev", "composer dumpautoload -o"}}

\* C17: when pkgFolder contains a (parseable) package.json the unit runs the
\* install-and-build command, as npm ci if and only if package-lock.json is
\* present and as npm i otherwise, and downloadPackage goes on (to the next
\* step, to its end or to its catch) only after that subprocess has exited.
C17_NpmVariantAndWait ==
  /\ ("package.json" \in bFiles /\ bValid /\ bStage \notin {"idle", "relocated"}) =>
       /\ Cardinality(NpmChildren) = 1
       /\ \A i \in NpmChildren :
            bChildren[i].command =
              IF "package-lock.json" \in bFiles
                THEN "npm ci && npm run build" ELSE "npm i && npm run build"
  /\ \A i \in NpmChildren :
       bStage \in {"composer", "done", "failed"} => bChildren[i].state # "running"

\* C17 happens: with a lockfile, npm ci has run to its exit and the unit has
\* gone on to its end.
C17_Witness ==
  /\ {"package.json", "package-lock.json"} \subseteq bFiles
  /\ bStage = "done"
  /\ bChildren[1] = [command |-> "npm ci && npm run build", state |-> "exited"]

Running(u) == ust[u] \notin {"pending", "settled"}

\* C19: a plugin or theme unit whose fetch, extraction or clone failed has
\* performed no relocation and no secondary build, no "installed
\* successfully" message was logged for it, and its pkgInfo was not pushed
\* into the manifest collection.
C19_FailedNotReported ==
  \A u \in Pkgs :
    failure[u] \in {"fetch", "extract", "clone"} =>
      /\ ops[u] \cap {"relocate", "npm", "composer"} = {}
      /\ reports[u] = {}
      /\ copied[u] = 0

\* C20: with names unique within each role, no two units that are both
\* running have written the same path inside tempDir.
C20_NoSharedTempPath ==
  UniqueNames(config.pkgs) =>
    \A u, v \in Pkgs :
      (u # v /\ Running(u) /\ Running(v)) => writes[u] \cap writes[v] = {}

\* C21: from makeDir(tempDir) at the start of installPackages until the
\* cleanup step, tempDir exists: no unit renames, moves or deletes it.
C21_TempDirContinuous ==
  pc \in {"core", "units", "post", "cleanup"} => tempExists

\* Installer.installPackages: plugins.map(...) builds a unit around each
\* entry of this.config.plugins, and the then-callback pushes that same
\* pkgInfo object into wpJson.plugins, wpJson being this.config. The number
\* of entries of the role's collection that hold unit u's spec.
CollectionCount(u) == 1 + copied[u]

\* C22: after installPackages has completed, each role's collection holds
\* every declared spec exactly once.
C22_NoDuplicateEntry ==
  pc \in {"cleanup", "done"} =>
    \A u \in Pkgs : CollectionCount(u) = 1

\* C24: a post-install command is spawned only when no plugin or theme unit
\* is running, and the cleanup step removes tempDir only when no unit and no
\* post-install command is running.
C24_PhaseOrder ==
  [][ /\ (\E i \in DOMAIN cmdState :
            i \in DOMAIN cmdState' /\ cmdState[i] = "idle" /\ cmdState'[i] = "running")
          => \A u \in Pkgs : ~Running(u)
      /\ (pc = "cleanup" /\ pc' = "done")
          => /\ \A u \in Pkgs : ~Running(u)
             /\ \A i \in DOMAIN cmdState : cmdState[i] # "running" ]_vars

\* C26: when the core unit has failed, its install() has resolved and the
\* process is alive, so that installPackages goes on to start every plugin
\* and theme unit.
C26_CoreFailureContained ==
  (pc = "core" /\ result[Core] = "failed") =>
    (~crashed /\ ust[Core] = "settled")

\* C27: a unit whose source ends in .git never fetches, extracts or
\* relocates, writes no path inside tempDir, and its destination folder is
\* only ever filled by the clone.
C27_GitUnitOnlyClones ==
  \A u \in Pkgs :
    IsGitUrl(config.pkgs[u].source) =>
      /\ ops[u] \cap {"fetch", "extract", "relocate"} = {}
      /\ writes[u] = {}
      /\ dest[u] \in {"absent", "stale", "clone"}

\* C27 happens: a git unit has cloned into its destination and settled while
\* a sibling fetched an archive into tempDir.
C27_Witness ==
  \E u, v \in Pkgs :
    /\ IsGitUrl(config.pkgs[u].source)
    /\ "clone" \in ops[u] /\ dest[u] = "clone" /\ ust[u] = "settled"
    /\ writes[v] # {}

\* C25: for a destination folder holding neither package.json nor
\* composer.json, the build steps spawn no subprocess.
C25_NoManifestNoSubprocess ==
  (bFiles \cap {"package.json", "composer.json"} = {}) => bChildren = <<>>

\* C23: after a successful core install into a fresh root, the folder the
\* core archive was relocated to is paths.baseFolder itself, and
\* pluginsFolder and themeFolder lie inside it.
C23_CoreInBaseFolder ==
  (pth.stage = "installed" /\ ~pth.isWp) =>
    /\ pth.coreAt = pth.paths.baseFolder
    /\ IsPrefix(pth.coreAt, pth.paths.pluginsFolder)
    /\ IsPrefix(pth.coreAt, pth.paths.themeFolder)

\* C28: when the install action was dispatched, the process has exited only
\* with Installer.run settled.
C28_ExitAfterRun ==
  main.stage = "exited" =>
    \A i \in DOMAIN main.jobs :
      main.jobs[i].key = "install" => main.jobs[i].state = "settled"

\* C29: when a configuration file existed at outputPath, generateConfig
\* resolves with that configuration and the file keeps its content.
C29_ExistingConfigKept ==
  ini.before.kind = "file" =>
    /\ ini.stage \in {"generated", "written"} => ini.result = ini.before.content
    /\ ini.target = ini.before

\* C30: when Updater.run has returned, it has updated wordpress, plugins and
\* themes if the all option is set, and otherwise exactly the targets whose
\* own option is set.
C30_UpdateTargets ==
  upd.stage = "done" =>
    {upd.done[i] : i \in DOMAIN upd.done} =
      IF upd.argv.all = "true" THEN UpdateTargets
      ELSE {t \in UpdateTargets : upd.argv[t] = "true"}

====
